---- MODULE Spec2Model ----
(***************************************************************************)
(* Model of the chat-completion gateway: the configuration, the provider   *)
(* registry, the five provider adapters and the ChatService operations.    *)
(*                                                                         *)
(* Representation.  Image references are sequences of one-character        *)
(* strings, so that prefix tests, splitting and trimming are computed.     *)
(* A Go pointer field (Temperature, MaxTokens, ImageURL) is <<>> when nil  *)
(* and <<v>> when it points to v.  A float is its decimal literal.  Error  *)
(* values are records whose kind names the format string of the            *)
(* fmt.Errorf call that built them.                                        *)
(***************************************************************************)
EXTENDS Integers, Sequences, FiniteSets, TLC

(***************************************************************************)
(* Bounds of the model.                                                    *)
(***************************************************************************)
MaxBytes == 3

MaxChoices == 2

(***************************************************************************)
(* strings package, on sequences of characters.                            *)
(***************************************************************************)
HasPrefix(s, p) == Len(s) >= Len(p) /\ SubSeq(s, 1, Len(p)) = p

HasSuffix(s, p) == Len(s) >= Len(p) /\ SubSeq(s, Len(s) - Len(p) + 1, Len(s)) = p

TrimPrefix(s, p) == IF HasPrefix(s, p) THEN SubSeq(s, Len(p) + 1, Len(s)) ELSE s

TrimSuffix(s, p) == IF HasSuffix(s, p) THEN SubSeq(s, 1, Len(s) - Len(p)) ELSE s

\* strings.SplitN(s, sep, 2) for a one-character separator: split at the
\* first occurrence, or the whole string alone when there is none.
SplitN2(s, sep) ==
    IF \E i \in 1..Len(s) : s[i] = sep
    THEN LET i == CHOOSE k \in 1..Len(s) : s[k] = sep /\ \A j \in 1..(k - 1) : s[j] # sep
         IN  <<SubSeq(s, 1, i - 1), SubSeq(s, i + 1, Len(s))>>
    ELSE <<s>>

WhiteSpace == {" ", "\t", "\n", "\r"}

RECURSIVE TrimLeft(_)
TrimLeft(s) == IF s # <<>> /\ Head(s) \in WhiteSpace THEN TrimLeft(Tail(s)) ELSE s

RECURSIVE TrimRight(_)
TrimRight(s) ==
    IF s # <<>> /\ s[Len(s)] \in WhiteSpace THEN TrimRight(SubSeq(s, 1, Len(s) - 1)) ELSE s

TrimSpace(s) == TrimRight(TrimLeft(s))

\* strings.Contains: sub occurs in s as a contiguous run.
Contains(s, sub) ==
    \E i \in 1..(Len(s) - Len(sub) + 1) : SubSeq(s, i, i + Len(sub) - 1) = sub

\* strings.ToLower on the finish reasons an upstream sends.
ToLower(s) ==
    CASE s = "STOP" -> "stop"
      [] s = "Stop" -> "stop"
      [] s = "MAX_TOKENS" -> "max_tokens"
      [] s = "LENGTH" -> "length"
      [] s = "Length" -> "length"
      [] s = "SAFETY" -> "safety"
      [] OTHER -> s

(***************************************************************************)
(* encoding/base64, StdEncoding.                                           *)
(***************************************************************************)
B64Alphabet ==
    << "A","B","C","D","E","F","G","H","I","J","K","L","M","N","O","P",
       "Q","R","S","T","U","V","W","X","Y","Z","a","b","c","d","e","f",
       "g","h","i","j","k","l","m","n","o","p","q","r","s","t","u","v",
       "w","x","y","z","0","1","2","3","4","5","6","7","8","9","+","/" >>

B64Char(n) == B64Alphabet[n + 1]

RECURSIVE EncodeToString(_)
EncodeToString(b) ==
    IF Len(b) = 0 THEN <<>>
    ELSE IF Len(b) = 1 THEN
        << B64Char(b[1] \div 4), B64Char((b[1] % 4) * 16), "=", "=" >>
    ELSE IF Len(b) = 2 THEN
        << B64Char(b[1] \div 4),
           B64Char((b[1] % 4) * 16 + (b[2] \div 16)),
           B64Char((b[2] % 16) * 4), "=" >>
    ELSE
        << B64Char(b[1] \div 4),
           B64Char((b[1] % 4) * 16 + (b[2] \div 16)),
           B64Char((b[2] % 16) * 4 + (b[3] \div 64)),
           B64Char(b[3] % 64) >> \o EncodeToString(SubSeq(b, 4, Len(b)))

B64Index(c) == (CHOOSE i \in 1..64 : B64Alphabet[i] = c) - 1

\* StdEncoding.DecodeString on well-formed input; <<-1>> stands for the
\* decoder's error on anything else.
RECURSIVE DecodeString(_)
DecodeString(s) ==
    IF Len(s) = 0 THEN <<>>
    ELSE IF Len(s) < 4 \/ \E i \in 1..2 : ~(\E k \in 1..64 : B64Alphabet[k] = s[i]) THEN <<-1>>
    ELSE LET a == B64Index(s[1])
             b == B64Index(s[2])
         IN  IF s[3] = "=" /\ s[4] = "=" /\ Len(s) = 4 THEN << a * 4 + (b \div 16) >>
             ELSE IF ~(\E k \in 1..64 : B64Alphabet[k] = s[3]) THEN <<-1>>
             ELSE LET c == B64Index(s[3])
                  IN  IF s[4] = "=" /\ Len(s) = 4
                      THEN << a * 4 + (b \div 16), (b % 16) * 16 + (c \div 4) >>
                      ELSE IF ~(\E k \in 1..64 : B64Alphabet[k] = s[4]) THEN <<-1>>
                      ELSE << a * 4 + (b \div 16), (b % 16) * 16 + (c \div 4),
                              (c % 4) * 64 + B64Index(s[4]) >>
                           \o DecodeString(SubSeq(s, 5, Len(s)))

(***************************************************************************)
(* Character strings used by the adapters and by the requests.             *)
(***************************************************************************)
DataColon == <<"d","a","t","a",":">>

DataImagePrefix == DataColon \o <<"i","m","a","g","e","/">>

Base64Suffix == <<";","b","a","s","e","6","4">>

ImagePng == <<"i","m","a","g","e","/","p","n","g">>

ImageJpeg == <<"i","m","a","g","e","/","j","p","e","g">>

TextHtml == <<"t","e","x","t","/","h","t","m","l">>

ImageSlash == <<"i","m","a","g","e","/">>

HttpPrefix == <<"h","t","t","p",":","/","/">>

HttpsPrefix == <<"h","t","t","p","s",":","/","/">>

JpegDataPrefix == DataColon \o ImageJpeg \o Base64Suffix \o <<",">>

FailedToRetrieveMedia == <<"failed"," ","to"," ","retrieve"," ","media">>

\* The data URI a client builds for PNG bytes.
PngDataURI(bytes) == DataColon \o ImagePng \o Base64Suffix \o <<",">> \o EncodeToString(bytes)

(***************************************************************************)
(* config.Config                                                           *)
(***************************************************************************)
SupportedProviders == <<"groq", "openrouter", "gemini", "atlas", "chutes">>

Supported == {SupportedProviders[i] : i \in 1..Len(SupportedProviders)}

\* Identifiers a caller may name: the supported ones and one that is not.
Ids == Supported \cup {"made_up"}

\* The key each identifier has when it has one.
KeyOf ==
    [i \in Ids |->
        CASE i = "groq" -> "sk-groq"
          [] i = "openrouter" -> "sk-openrouter"
          [] i = "gemini" -> "sk-gemini"
          [] i = "atlas" -> "sk-atlas"
          [] i = "chutes" -> "sk-chutes"
          [] OTHER -> "sk-made-up"]

\* The key maps explored: no key, one key, and every key.
Configs ==
    {[i \in Ids |-> IF i \in K THEN KeyOf[i] ELSE ""] :
        K \in {S \in SUBSET Ids : Cardinality(S) <= 1 \/ S = Ids}}

\* GetAPIKey falling back to the default provider's key.
GetAPIKey_DefaultFallback(c, provider) ==
    IF provider \in DOMAIN c /\ c[provider] # "" THEN c[provider]
    ELSE IF "groq" \in DOMAIN c THEN c["groq"] ELSE ""

GetAPIKey(c, provider) == IF provider \in DOMAIN c THEN c[provider] ELSE ""

GetSupportedProviders == SupportedProviders

IsValidProvider(provider) ==
    \E i \in 1..Len(GetSupportedProviders) : GetSupportedProviders[i] = provider

(***************************************************************************)
(* services: constants                                                     *)
(***************************************************************************)
DefaultProvider == "groq"

DefaultTemperature == "0.5"

DefaultMaxTokens == 1000

StatusHealthy == "healthy"

StatusNoAPIKeys == "no_api_keys"

StatusInvalidRequest == "invalid_request"

StatusInvalidProvider == "invalid_provider"

StatusOK == 200

GeminiDefaultMaxOutputTokens == 2048

(***************************************************************************)
(* models: content parts, messages, errors                                 *)
(***************************************************************************)
TextPart(t) == [Type |-> "text", Text |-> t, ImageURL |-> <<>>]

ImagePart(u) == [Type |-> "image_url", Text |-> "", ImageURL |-> <<[URL |-> u]>>]

ChatMessage(role, content) == [Role |-> role, Content |-> content]

\* An error value: its kind, and the status and body the message carries.
Err(kind) == [kind |-> kind, status |-> 0, body |-> <<>>, of |-> ""]

ErrOf(kind, name) == [Err(kind) EXCEPT !.of = name]

ErrBody(kind, body) == [Err(kind) EXCEPT !.body = body]

ErrStatus(kind, status, body) == [Err(kind) EXCEPT !.status = status, !.body = body]

(***************************************************************************)
(* services.ChatService: request preparation                               *)
(***************************************************************************)
\* setDefaults without the max_tokens default.
setDefaults_TemperatureOnly(req) ==
    [req EXCEPT !.Temperature = IF @ = <<>> THEN <<DefaultTemperature>> ELSE @]

setDefaults(req) ==
    [req EXCEPT !.Temperature = IF @ = <<>> THEN <<DefaultTemperature>> ELSE @,
                !.MaxTokens = IF @ = <<>> THEN <<DefaultMaxTokens>> ELSE @]

\* getProviderName returning the default whatever the request names.
getProviderName_AlwaysDefault(providerName) == DefaultProvider

getProviderName(providerName) ==
    IF providerName = "" THEN DefaultProvider ELSE providerName

\* The validation testing the image data as well as the flag.
IsInvalidRequest_IgnoringData(req) ==
    req.Prompt = "" /\ ~req.WithImage /\ req.ImageData = <<>>

\* The validation at the head of ProcessChatCompletion.
IsInvalidRequest(req) == req.Prompt = "" /\ ~req.WithImage

\* The content parts with the image ahead of the text.
BuildContentParts_ImageFirst(req) ==
    (IF req.WithImage /\ req.ImageData # <<>> THEN <<ImagePart(req.ImageData)>> ELSE <<>>)
    \o (IF req.Prompt # "" THEN <<TextPart(req.Prompt)>> ELSE <<>>)

\* "Construct ContentParts"
BuildContentParts(req) ==
    (IF req.Prompt # "" THEN <<TextPart(req.Prompt)>> ELSE <<>>)
    \o (IF req.WithImage /\ req.ImageData # <<>> THEN <<ImagePart(req.ImageData)>> ELSE <<>>)

\* The assignment to req.Messages writing the resolved provider into the
\* request as well.
BuildMessages_FillProvider(req) ==
    [req EXCEPT !.Messages = <<ChatMessage("user", BuildContentParts(req))>>,
                !.Provider = getProviderName(@)]

\* "Create ChatMessage" and the assignment to req.Messages.
BuildMessages(req) ==
    [req EXCEPT !.Messages = <<ChatMessage("user", BuildContentParts(req))>>]

(***************************************************************************)
(* providers: building the upstream payload                                *)
(***************************************************************************)
\* All content parts of all messages, in order (the nested range loops).
RECURSIVE FlatParts(_)
FlatParts(messages) ==
    IF messages = <<>> THEN <<>> ELSE Head(messages).Content \o FlatParts(Tail(messages))

\* groq.go: the inner loop over msg.Content.
RECURSIVE GroqContentParts(_)
GroqContentParts(content) ==
    IF content = <<>> THEN [err |-> <<>>, parts |-> <<>>]
    ELSE LET part == Head(content)
             rest == GroqContentParts(Tail(content))
         IN  IF part.Type = "text"
             THEN IF rest.err # <<>> THEN rest
                  ELSE [err |-> <<>>,
                        parts |-> <<[type |-> "text", text |-> part.Text, url |-> <<>>]>> \o rest.parts]
             ELSE IF part.Type = "image_url" /\ part.ImageURL # <<>>
             THEN IF TrimSpace(part.ImageURL[1].URL) = <<>>
                  THEN [err |-> <<Err("EmptyImageURL")>>, parts |-> <<>>]
                  ELSE IF rest.err # <<>> THEN rest
                  ELSE [err |-> <<>>,
                        parts |-> <<[type |-> "image_url", text |-> "",
                                     url |-> part.ImageURL[1].URL]>> \o rest.parts]
             ELSE rest

\* groq.go: the outer loop over req.Messages.
RECURSIVE GroqMessages(_)
GroqMessages(messages) ==
    IF messages = <<>> THEN [err |-> <<>>, messages |-> <<>>]
    ELSE LET cp == GroqContentParts(Head(messages).Content)
             rest == GroqMessages(Tail(messages))
         IN  IF cp.err # <<>> THEN [err |-> cp.err, messages |-> <<>>]
             ELSE IF rest.err # <<>> THEN rest
             ELSE [err |-> <<>>,
                   messages |-> <<[role |-> Head(messages).Role, content |-> cp.parts]>>
                                \o rest.messages]

\* openrouter.go: the inner loop over msg.Content.
RECURSIVE OpenRouterContentParts(_)
OpenRouterContentParts(content) ==
    IF content = <<>> THEN <<>>
    ELSE LET part == Head(content)
         IN  (IF part.Type = "text"
              THEN <<[type |-> "text", text |-> part.Text, url |-> <<>>]>>
              ELSE IF part.Type = "image_url" /\ part.ImageURL # <<>>
              THEN <<[type |-> "image_url", text |-> "", url |-> part.ImageURL[1].URL]>>
              ELSE <<>>) \o OpenRouterContentParts(Tail(content))

RECURSIVE OpenRouterMessages(_)
OpenRouterMessages(messages) ==
    IF messages = <<>> THEN <<>>
    ELSE <<[role |-> Head(messages).Role,
            content |-> OpenRouterContentParts(Head(messages).Content)]>>
         \o OpenRouterMessages(Tail(messages))

\* atlas.go: one user message whose content is the flat prompt.
AtlasMessages(req) == <<[role |-> "user", content |-> req.Prompt]>>

\* chutes.go: a text part with the prompt, then the image as a JPEG data URI.
ChutesMessages(req) ==
    <<[role |-> "user",
       content |-> <<[type |-> "text", text |-> req.Prompt, url |-> <<>>]>>
                   \o (IF req.WithImage /\ req.ImageData # <<>>
                       THEN <<[type |-> "image_url", text |-> "",
                               url |-> JpegDataPrefix \o req.ImageData]>>
                       ELSE <<>>)]>>

GroqModel(req) ==
    IF req.Model # "" THEN req.Model
    ELSE IF req.WithImage THEN "meta-llama/llama-4-maverick-17b-128e-instruct"
    ELSE "openai/gpt-oss-120b"

OpenRouterModel(req) ==
    IF req.Model # "" THEN req.Model
    ELSE IF req.WithImage THEN "google/gemini-2.5-flash-image-preview:free"
    ELSE "deepseek/deepseek-chat-v3.1:free"

AtlasModel(req) == IF req.Model # "" THEN req.Model ELSE "openai/gpt-oss-20b"

ChutesModel(req) == IF req.Model # "" THEN req.Model ELSE "zai-org/GLM-4.5-FP8"

GeminiModel(req) == IF req.Model # "" THEN req.Model ELSE "gemini-2.5-flash"

\* The payload with the service's default temperature when the request has
\* none.
OpenAIPayload_DefaultTemperature(model, messages, req) ==
    [model |-> model, messages |-> messages,
     temperature |-> IF req.Temperature = <<>> THEN <<DefaultTemperature>>
                     ELSE req.Temperature,
     max_tokens |-> req.MaxTokens]

\* The JSON payload of the four OpenAI-style adapters: temperature and
\* max_tokens are set only when the request has them.
OpenAIPayload(model, messages, req) ==
    [model |-> model, messages |-> messages,
     temperature |-> req.Temperature, max_tokens |-> req.MaxTokens]

\* gemini: "Add generation config if temperature or max tokens are specified"
GeminiPayload(parts, req) ==
    [contents |-> parts,
     temperature |-> req.Temperature,
     maxOutputTokens |-> IF req.MaxTokens # <<>> THEN req.MaxTokens
                         ELSE <<GeminiDefaultMaxOutputTokens>>]

\* The data-URI branch without the trimming of ";base64".
ResolveDataURI_KeepSuffix(dataURI) ==
    LET partsURI == SplitN2(dataURI, ",")
    IN  IF Len(partsURI) # 2
        THEN [err |-> <<Err("MalformedDataURI")>>, base64Data |-> <<>>, mimeType |-> <<>>]
        ELSE [err |-> <<>>,
              base64Data |-> partsURI[2],
              mimeType |-> TrimPrefix(partsURI[1], DataColon)]

\* gemini: the data-URI branch of the image part.
ResolveDataURI(dataURI) ==
    LET partsURI == SplitN2(dataURI, ",")
    IN  IF Len(partsURI) # 2
        THEN [err |-> <<Err("MalformedDataURI")>>, base64Data |-> <<>>, mimeType |-> <<>>]
        ELSE [err |-> <<>>,
              base64Data |-> partsURI[2],
              mimeType |-> TrimSuffix(TrimPrefix(partsURI[1], DataColon), Base64Suffix)]

\* gemini: "Append inline data part if base64Data is not empty"
InlinePart(base64Data, mimeType) ==
    IF base64Data # <<>> /\ mimeType # <<>>
    THEN <<[kind |-> "inline_data", text |-> "", mime_type |-> mimeType, data |-> base64Data]>>
    ELSE <<>>

\* GeminiProvider.downloadImageToBase64 on the reply to its GET.
downloadImageToBase64(get) ==
    IF get.transport
    THEN [err |-> <<Err("DownloadFailed")>>, base64Data |-> <<>>, mimeType |-> <<>>]
    ELSE IF get.status # StatusOK
    THEN [err |-> <<ErrStatus("DownloadHTTPError", get.status, <<>>)>>,
          base64Data |-> <<>>, mimeType |-> <<>>]
    ELSE LET contentType == IF get.contentType = <<>> THEN ImageJpeg ELSE get.contentType
         IN  IF ~HasPrefix(contentType, ImageSlash)
             THEN [err |-> <<Err("NotAnImage")>>, base64Data |-> <<>>, mimeType |-> <<>>]
             ELSE [err |-> <<>>, base64Data |-> EncodeToString(get.bytes),
                   mimeType |-> contentType]

\* The test of the download branch taking plain http only.
IsHTTPURL_PlainOnly(dataURI) == HasPrefix(dataURI, HttpPrefix)

\* gemini: the test of the branch that downloads the image.
IsHTTPURL(dataURI) == HasPrefix(dataURI, HttpPrefix) \/ HasPrefix(dataURI, HttpsPrefix)

\* gemini: the loop over the content parts from position pos on, with the
\* parts built so far.  It stops at the first error, at a part whose image
\* has to be downloaded, or at the end.
RECURSIVE GeminiParts(_, _, _)
GeminiParts(flat, pos, acc) ==
    IF pos > Len(flat) THEN [next |-> "built", err |-> <<>>, parts |-> acc, pos |-> pos]
    ELSE LET part == flat[pos]
         IN  IF part.Type = "text"
             THEN GeminiParts(flat, pos + 1,
                      Append(acc, [kind |-> "text", text |-> part.Text,
                                   mime_type |-> <<>>, data |-> <<>>]))
             ELSE IF part.Type = "image_url" /\ part.ImageURL # <<>>
             THEN LET dataURI == part.ImageURL[1].URL
                  IN  IF HasPrefix(dataURI, DataImagePrefix)
                      THEN LET r == ResolveDataURI(dataURI)
                           IN  IF r.err # <<>>
                               THEN [next |-> "error", err |-> r.err, parts |-> acc, pos |-> pos]
                               ELSE GeminiParts(flat, pos + 1,
                                        acc \o InlinePart(r.base64Data, r.mimeType))
                      ELSE IF IsHTTPURL(dataURI)
                      THEN [next |-> "download", err |-> <<>>, parts |-> acc, pos |-> pos]
                      ELSE [next |-> "error", err |-> <<Err("UnsupportedImageReference")>>,
                            parts |-> acc, pos |-> pos]
             ELSE GeminiParts(flat, pos + 1, acc)

(***************************************************************************)
(* providers: mapping the upstream reply                                   *)
(*                                                                         *)
(* A reply is [transport, status, body]: transport is TRUE when client.Do  *)
(* itself failed.  A body is [text, doc]: text is the raw body as a        *)
(* sequence of words, doc is <<d>> when the body is a JSON document d of   *)
(* the upstream's schema and <<>> when it does not parse.  A field the     *)
(* upstream omits is <<>> in d.                                            *)
(***************************************************************************)
\* json.Unmarshal leaves the zero value in a field the document omits.
IntOrZero(field) == IF field = <<>> THEN 0 ELSE field[1]

Usage(p, c, t) ==
    [PromptTokens |-> IntOrZero(p), CompletionTokens |-> IntOrZero(c),
     TotalTokens |-> IntOrZero(t)]

\* One upstream choice, its index not copied.
OpenAIChoice_NoIndex(choice) ==
    [Index |-> 0,
     Message |-> ChatMessage(choice.Role, <<TextPart(choice.Content)>>),
     FinishReason |-> choice.FinishReason]

\* groq.go, openrouter.go, chutes.go: one upstream choice.
OpenAIChoice(choice) ==
    [Index |-> choice.Index,
     Message |-> ChatMessage(choice.Role, <<TextPart(choice.Content)>>),
     FinishReason |-> choice.FinishReason]

\* atlas.go: the message content is the upstream string itself.
AtlasChoice(choice) ==
    [Index |-> choice.Index,
     Message |-> ChatMessage(choice.Role, choice.Content),
     FinishReason |-> choice.FinishReason]

\* "Convert to our response format" of the four OpenAI-style adapters.
OpenAIResponse(adapter, doc) ==
    [ID |-> doc.ID, Object |-> doc.Object, Created |-> doc.Created, Model |-> doc.Model,
     Choices |-> [i \in 1..Len(doc.Choices) |->
                    IF adapter = "AtlasProvider" THEN AtlasChoice(doc.Choices[i])
                    ELSE OpenAIChoice(doc.Choices[i])],
     Usage |-> Usage(doc.Usage.PromptTokens, doc.Usage.CompletionTokens,
                     doc.Usage.TotalTokens)]

MaxTokensPlaceholder == "The response was terminated early due to the 'max_tokens' limit. Please try increasing the max_tokens parameter."

\* gemini: the text of one candidate.
GeminiContent(candidate) ==
    LET content == IF Len(candidate.Parts) > 0 /\ candidate.Parts[1] # ""
                   THEN candidate.Parts[1] ELSE ""
    IN  IF ToLower(candidate.FinishReason) = "max_tokens" /\ Len(candidate.Parts) = 0
        THEN MaxTokensPlaceholder
        ELSE content

\* gemini: one candidate, at position i (0-based) of the list.
GeminiChoice(candidate, i) ==
    [Index |-> i,
     Message |-> ChatMessage("assistant", <<TextPart(GeminiContent(candidate))>>),
     FinishReason |-> ToLower(candidate.FinishReason)]

\* gemini: "Convert to our response format"
GeminiResponse(doc, model, now) ==
    [ID |-> <<"gemini-", now>>, Object |-> "chat.completion", Created |-> now,
     Model |-> model,
     Choices |-> [i \in 1..Len(doc.Candidates) |-> GeminiChoice(doc.Candidates[i], i - 1)],
     Usage |-> Usage(doc.Usage.PromptTokenCount, doc.Usage.CandidatesTokenCount,
                     doc.Usage.TotalTokenCount)]

\* The status check taking only 5xx for a failure.
HTTPStatusError_ServerOnly(adapter, status, text) ==
    IF status < 500 THEN <<>>
    ELSE <<ErrStatus("ProviderError", status, text)>>

\* The check of resp.StatusCode after the body is read.  Groq reports a
\* media failure of the upstream by its body alone.
HTTPStatusError(adapter, status, text) ==
    IF status = StatusOK THEN <<>>
    ELSE IF adapter = "GroqProvider" /\ status = 400 /\ Contains(text, FailedToRetrieveMedia)
    THEN <<ErrBody("ImageAccessError", text)>>
    ELSE <<ErrStatus("ProviderError", status, text)>>

\* The checks without the one for an empty candidate list.
GeminiReplyError_BlockedOnly(doc) ==
    IF \E i \in 1..Len(doc.SafetyRatings) : doc.SafetyRatings[i].Blocked
    THEN <<Err("PromptBlocked")>>
    ELSE <<>>

\* gemini: the checks between parsing and conversion.
GeminiReplyError(doc) ==
    IF \E i \in 1..Len(doc.SafetyRatings) : doc.SafetyRatings[i].Blocked
    THEN <<Err("PromptBlocked")>>
    ELSE IF Len(doc.Candidates) = 0 THEN <<Err("NoCandidates")>>
    ELSE <<>>

\* ChatCompletion returning nothing for a body that does not parse.
ChatCompletionFinish_SwallowParseError(adapter, model, reply, now) ==
    IF reply.transport THEN [resp |-> <<>>, err |-> <<Err("TransportError")>>]
    ELSE IF HTTPStatusError(adapter, reply.status, reply.body.text) # <<>>
    THEN [resp |-> <<>>, err |-> HTTPStatusError(adapter, reply.status, reply.body.text)]
    ELSE IF reply.body.doc = <<>>
    THEN [resp |-> <<>>, err |-> <<>>]
    ELSE IF adapter = "GeminiProvider"
    THEN IF GeminiReplyError(reply.body.doc[1]) # <<>>
         THEN [resp |-> <<>>, err |-> GeminiReplyError(reply.body.doc[1])]
         ELSE [resp |-> <<GeminiResponse(reply.body.doc[1], model, now)>>, err |-> <<>>]
    ELSE [resp |-> <<OpenAIResponse(adapter, reply.body.doc[1])>>, err |-> <<>>]

\* ChatCompletion from the return of client.Do to its own return.
ChatCompletionFinish(adapter, model, reply, now) ==
    IF reply.transport THEN [resp |-> <<>>, err |-> <<Err("TransportError")>>]
    ELSE IF HTTPStatusError(adapter, reply.status, reply.body.text) # <<>>
    THEN [resp |-> <<>>, err |-> HTTPStatusError(adapter, reply.status, reply.body.text)]
    ELSE IF reply.body.doc = <<>>
    THEN [resp |-> <<>>, err |-> <<Err("ResponseParseError")>>]
    ELSE IF adapter = "GeminiProvider"
    THEN IF GeminiReplyError(reply.body.doc[1]) # <<>>
         THEN [resp |-> <<>>, err |-> GeminiReplyError(reply.body.doc[1])]
         ELSE [resp |-> <<GeminiResponse(reply.body.doc[1], model, now)>>, err |-> <<>>]
    ELSE [resp |-> <<OpenAIResponse(adapter, reply.body.doc[1])>>, err |-> <<>>]

\* ChatCompletion from its entry to its first network call, or to its
\* return when it fails before one.
ChatCompletionStart(adapter, req, apiKey) ==
    LET post(model, payload) ==
            [next |-> "post", err |-> <<>>, parts |-> <<>>, pos |-> 0,
             post |-> <<[adapter |-> adapter, model |-> model, apiKey |-> apiKey,
                         payload |-> payload]>>]
        fail(e, parts, pos) ==
            [next |-> "error", err |-> e, parts |-> parts, pos |-> pos, post |-> <<>>]
    IN  CASE adapter = "GroqProvider" ->
               LET m == GroqMessages(req.Messages)
               IN  IF m.err # <<>> THEN fail(m.err, <<>>, 0)
                   ELSE post(GroqModel(req), OpenAIPayload(GroqModel(req), m.messages, req))
          [] adapter = "OpenRouterProvider" ->
               post(OpenRouterModel(req),
                    OpenAIPayload(OpenRouterModel(req), OpenRouterMessages(req.Messages), req))
          [] adapter = "AtlasProvider" ->
               post(AtlasModel(req), OpenAIPayload(AtlasModel(req), AtlasMessages(req), req))
          [] adapter = "ChutesProvider" ->
               post(ChutesModel(req), OpenAIPayload(ChutesModel(req), ChutesMessages(req), req))
          [] adapter = "GeminiProvider" ->
               LET g == GeminiParts(FlatParts(req.Messages), 1, <<>>)
               IN  IF g.next = "error" THEN fail(g.err, g.parts, g.pos)
                   ELSE IF g.next = "download"
                   THEN [next |-> "download", err |-> <<>>, parts |-> g.parts,
                         pos |-> g.pos, post |-> <<>>]
                   ELSE IF Len(g.parts) = 0 THEN fail(<<Err("NoValidContent")>>, <<>>, g.pos)
                   ELSE post(GeminiModel(req), GeminiPayload(g.parts, req))

\* gemini: ChatCompletion from the return of downloadImageToBase64 on.
GeminiResume(req, apiKey, parts, pos, get) ==
    LET d == downloadImageToBase64(get)
    IN  IF d.err # <<>>
        THEN [next |-> "error", err |-> <<[d.err[1] EXCEPT !.of = "download"]>>,
              parts |-> parts, pos |-> pos, post |-> <<>>]
        ELSE LET g == GeminiParts(FlatParts(req.Messages), pos + 1,
                                  parts \o InlinePart(d.base64Data, d.mimeType))
             IN  IF g.next = "error"
                 THEN [next |-> "error", err |-> g.err, parts |-> g.parts, pos |-> g.pos,
                       post |-> <<>>]
                 ELSE IF g.next = "download"
                 THEN [next |-> "download", err |-> <<>>, parts |-> g.parts,
                       pos |-> g.pos, post |-> <<>>]
                 ELSE IF Len(g.parts) = 0
                 THEN [next |-> "error", err |-> <<Err("NoValidContent")>>, parts |-> <<>>,
                       pos |-> g.pos, post |-> <<>>]
                 ELSE [next |-> "post", err |-> <<>>, parts |-> <<>>, pos |-> 0,
                       post |-> <<[adapter |-> "GeminiProvider", model |-> GeminiModel(req),
                                   apiKey |-> apiKey,
                                   payload |-> GeminiPayload(g.parts, req)]>>]

(***************************************************************************)
(* providers: the registry                                                 *)
(***************************************************************************)
Adapters ==
    {"GroqProvider", "OpenRouterProvider", "GeminiProvider", "AtlasProvider", "ChutesProvider"}

GetName(adapter) ==
    CASE adapter = "GroqProvider" -> "groq"
      [] adapter = "OpenRouterProvider" -> "openrouter"
      [] adapter = "GeminiProvider" -> "gemini"
      [] adapter = "AtlasProvider" -> "atlas"
      [] adapter = "ChutesProvider" -> "chutes"

\* RegisterProvider keeping the adapter an identifier already has.
RegisterProvider_InsertOnly(reg, name, provider) ==
    [n \in DOMAIN reg \cup {name} |-> IF n \in DOMAIN reg THEN reg[n] ELSE provider]

RegisterProvider(reg, name, provider) ==
    [n \in DOMAIN reg \cup {name} |-> IF n = name THEN provider ELSE reg[n]]

\* GetProvider answering with the default provider's adapter for an
\* identifier it does not hold.
GetProvider_DefaultFallback(reg, name) ==
    IF name \in DOMAIN reg
    THEN [p |-> <<reg[name]>>, err |-> <<>>]
    ELSE IF DefaultProvider \in DOMAIN reg
    THEN [p |-> <<reg[DefaultProvider]>>, err |-> <<>>]
    ELSE [p |-> <<>>, err |-> <<ErrOf("UnknownProvider", name)>>]

GetProvider(reg, name) ==
    IF name \in DOMAIN reg
    THEN [p |-> <<reg[name]>>, err |-> <<>>]
    ELSE [p |-> <<>>, err |-> <<ErrOf("UnknownProvider", name)>>]

\* InitProviders without the registration of chutes.
InitProviders_NoChutes(reg) ==
    RegisterProvider(
      RegisterProvider(
        RegisterProvider(
          RegisterProvider(reg, "gemini", "GeminiProvider"),
          "openrouter", "OpenRouterProvider"),
        "groq", "GroqProvider"),
      "atlas", "AtlasProvider")

InitProviders(reg) ==
    RegisterProvider(
      RegisterProvider(
        RegisterProvider(
          RegisterProvider(
            RegisterProvider(reg, "gemini", "GeminiProvider"),
            "openrouter", "OpenRouterProvider"),
          "groq", "GroqProvider"),
        "atlas", "AtlasProvider"),
      "chutes", "ChutesProvider")

\* The RegisterProvider calls of InitProviders, in order.
InitRegistrations ==
    << [name |-> "gemini", provider |-> "GeminiProvider"],
       [name |-> "openrouter", provider |-> "OpenRouterProvider"],
       [name |-> "groq", provider |-> "GroqProvider"],
       [name |-> "atlas", provider |-> "AtlasProvider"],
       [name |-> "chutes", provider |-> "ChutesProvider"] >>

\* TestProvider looking for the key before validating the identifier.
TestProvider_KeyFirst(cfg, provider) ==
    IF provider = "" THEN [Provider |-> provider, Status |-> StatusInvalidRequest]
    ELSE IF GetAPIKey(cfg, provider) = ""
    THEN [Provider |-> provider, Status |-> StatusNoAPIKeys]
    ELSE IF ~IsValidProvider(provider)
    THEN [Provider |-> provider, Status |-> StatusInvalidProvider]
    ELSE [Provider |-> provider, Status |-> StatusHealthy]

(***************************************************************************)
(* services.ChatService.TestProvider                                       *)
(***************************************************************************)
TestProvider(cfg, provider) ==
    IF provider = "" THEN [Provider |-> provider, Status |-> StatusInvalidRequest]
    ELSE IF ~IsValidProvider(provider)
    THEN [Provider |-> provider, Status |-> StatusInvalidProvider]
    ELSE IF GetAPIKey(cfg, provider) = ""
    THEN [Provider |-> provider, Status |-> StatusNoAPIKeys]
    ELSE [Provider |-> provider, Status |-> StatusHealthy]

(***************************************************************************)
(* services.ChatService.GetHealthStatus, called at time now.  The timestamp *)
(* is the RFC 3339 text of now.                                            *)
(***************************************************************************)
GetHealthStatus(cfg, now) ==
    LET hasAnyKey == \E i \in 1..Len(GetSupportedProviders) :
                        GetAPIKey(cfg, GetSupportedProviders[i]) # ""
        chatStatus == IF ~hasAnyKey THEN StatusNoAPIKeys ELSE StatusHealthy
    IN  [Status |-> StatusHealthy, Timestamp |-> <<"rfc3339", now>>,
         Services |-> [chat |-> chatStatus]]

(***************************************************************************)
(* services.ChatService.ProcessChatCompletion, to the first network call   *)
(* of the adapter or to its own return.                                    *)
(***************************************************************************)
\* ProcessChatCompletion looking the adapter up before resolving the key.
ProcessStart_LookupFirst(cfg, reg, r) ==
    LET stop(q, e) ==
            [req |-> q, invoked |-> "", apiKey |-> "", next |-> "error", err |-> e,
             parts |-> <<>>, pos |-> 0, post |-> <<>>]
    IN  IF IsInvalidRequest(r) THEN stop(r, <<Err("InvalidRequest")>>)
        ELSE LET q == BuildMessages(setDefaults(r))
                 providerName == getProviderName(q.Provider)
                 apiKey == GetAPIKey(cfg, providerName)
                 provider == GetProvider(reg, providerName)
             IN  IF provider.err # <<>> THEN stop(q, provider.err)
                 ELSE IF apiKey = "" THEN stop(q, <<ErrOf("MissingAPIKey", providerName)>>)
                 ELSE LET c == ChatCompletionStart(provider.p[1], q, apiKey)
                      IN  [req |-> q, invoked |-> provider.p[1], apiKey |-> apiKey,
                           next |-> c.next, err |-> c.err, parts |-> c.parts,
                           pos |-> c.pos, post |-> c.post]

ProcessStart(cfg, reg, r) ==
    LET stop(q, e) ==
            [req |-> q, invoked |-> "", apiKey |-> "", next |-> "error", err |-> e,
             parts |-> <<>>, pos |-> 0, post |-> <<>>]
    IN  IF IsInvalidRequest(r) THEN stop(r, <<Err("InvalidRequest")>>)
        ELSE LET q == BuildMessages(setDefaults(r))
                 providerName == getProviderName(q.Provider)
                 apiKey == GetAPIKey(cfg, providerName)
                 provider == GetProvider(reg, providerName)
             IN  IF apiKey = "" THEN stop(q, <<ErrOf("MissingAPIKey", providerName)>>)
                 ELSE IF provider.err # <<>> THEN stop(q, provider.err)
                 ELSE LET c == ChatCompletionStart(provider.p[1], q, apiKey)
                      IN  [req |-> q, invoked |-> provider.p[1], apiKey |-> apiKey,
                           next |-> c.next, err |-> c.err, parts |-> c.parts,
                           pos |-> c.pos, post |-> c.post]

(***************************************************************************)
(* Inputs                                                                  *)
(***************************************************************************)
RECURSIVE SeqsUpTo(_, _)
SeqsUpTo(S, n) ==
    IF n = 0 THEN {<<>>}
    ELSE LET shorter == SeqsUpTo(S, n - 1)
         IN  shorter \cup {Append(q, x) : q \in {t \in shorter : Len(t) = n - 1}, x \in S}

ByteVals == {0, 77, 255}

ByteSeqs == SeqsUpTo(ByteVals, MaxBytes)

HttpURL == HttpsPrefix \o <<"h","/","i">>

FtpURL == <<"f","t","p",":","/","/","h">>

NoCommaURI == DataColon \o ImagePng

BlankURL == <<" ">>

ImageRefs == {<<>>, PngDataURI(<<77>>), HttpURL, FtpURL, NoCommaURI, BlankURL}

PrebuiltMessages ==
    << ChatMessage("system", <<TextPart("be brief")>>),
       ChatMessage("user", <<TextPart("hello")>>) >>

ChatRequest(messages, prompt, model, temperature, maxTokens, provider, withImage, imageData) ==
    [Messages |-> messages, Prompt |-> prompt, Model |-> model,
     Temperature |-> temperature, MaxTokens |-> maxTokens, Stream |-> <<>>,
     Provider |-> provider, WithImage |-> withImage, ImageData |-> imageData]

\* The requests of the orchestrator's specification.
Requests ==
    {ChatRequest(m, p, mo, t, mt, pr, wi, im) :
        m \in {<<>>, PrebuiltMessages}, p \in {"", "hi"}, mo \in {"", "m1"},
        t \in {<<>>, <<"0.7">>}, mt \in {<<>>, <<50>>},
        pr \in {""} \cup Ids, wi \in BOOLEAN, im \in ImageRefs}

\* The requests of the adapters' specification: a plain prompt for each
\* identifier, and for gemini every PNG data URI, alone and with a prompt.
AdapterRequests ==
    {ChatRequest(<<>>, "hi", "", <<>>, <<>>, pr, FALSE, <<>>) : pr \in {""} \cup Supported}
    \cup {ChatRequest(<<>>, p, "", <<>>, <<>>, "gemini", TRUE, PngDataURI(b)) :
            p \in {"", "hi"}, b \in ByteSeqs}

\* The requests handed to an adapter directly: one user message with a text
\* part or with no part, each optional parameter absent or present.
DirectRequests ==
    {ChatRequest(<<ChatMessage("user", IF p = "" THEN <<>> ELSE <<TextPart(p)>>)>>,
                 p, "", t, mt, "", p = "", <<>>) :
        p \in {"", "hi"}, t \in {<<>>, <<"0.7">>}, mt \in {<<>>, <<50>>}}

\* The requests of the registry's specification.
RegistryRequests ==
    {ChatRequest(<<>>, p, "", <<>>, <<>>, pr, FALSE, <<>>) :
        p \in {"", "hi"}, pr \in {"", "gemini", "made_up"}}

\* The identifiers and adapters of the RegisterProvider calls made besides
\* InitProviders.
RegNames == {"groq", "made_up"}

RegAdapters == {"GroqProvider", "AtlasProvider"}

Times == {1700000000}

ErrorTexts == {<<"rate"," ","limit">>, <<"x",":"," ">> \o FailedToRetrieveMedia}

UsageDocs ==
    {[PromptTokens |-> <<5>>, CompletionTokens |-> <<2>>, TotalTokens |-> <<7>>],
     [PromptTokens |-> <<>>, CompletionTokens |-> <<>>, TotalTokens |-> <<>>],
     [PromptTokens |-> <<5>>, CompletionTokens |-> <<>>, TotalTokens |-> <<9>>]}

UpChoices ==
    {[Index |-> 0, Role |-> "assistant", Content |-> "hi", FinishReason |-> "stop"],
     [Index |-> 1, Role |-> "model", Content |-> "", FinishReason |-> "Length"],
     [Index |-> 1, Role |-> "assistant", Content |-> "there", FinishReason |-> "STOP"]}

OpenAIDoc(choices, usage) ==
    [ID |-> "cmpl-1", Object |-> "chat.completion", Created |-> 1690000000,
     Model |-> "up-model", Choices |-> choices, Usage |-> usage]

UpCandidates ==
    {[Parts |-> <<"hi">>, FinishReason |-> "STOP"],
     [Parts |-> <<>>, FinishReason |-> "STOP"],
     [Parts |-> <<>>, FinishReason |-> "MAX_TOKENS"],
     [Parts |-> <<"a", "b">>, FinishReason |-> "STOP"],
     [Parts |-> <<"">>, FinishReason |-> "MAX_TOKENS"]}

GeminiUsage(u) ==
    [PromptTokenCount |-> u.PromptTokens, CandidatesTokenCount |-> u.CompletionTokens,
     TotalTokenCount |-> u.TotalTokens]

GeminiDoc(candidates, ratings, usage) ==
    [Candidates |-> candidates, SafetyRatings |-> ratings, Usage |-> GeminiUsage(usage)]

HTTPReply(status, text, doc) ==
    [transport |-> FALSE, status |-> status, body |-> [text |-> text, doc |-> doc]]

TransportFailure ==
    [transport |-> TRUE, status |-> 0, body |-> [text |-> <<>>, doc |-> <<>>]]

\* Replies that are not a parsed success: transport failure, error statuses
\* and a 200 whose body is not JSON.
FailureReplies ==
    {TransportFailure, HTTPReply(StatusOK, <<"<html>">>, <<>>)}
    \cup {HTTPReply(st, tx, <<>>) : st \in {201, 400, 429, 500}, tx \in ErrorTexts}

OKDocs(adapter, choiceLists, usages) ==
    IF adapter = "GeminiProvider"
    THEN {GeminiDoc(c, r, u) :
            c \in SeqsUpTo(UpCandidates, choiceLists),
            r \in {<<>>, <<[Blocked |-> FALSE]>>, <<[Blocked |-> FALSE], [Blocked |-> TRUE]>>},
            u \in usages}
    ELSE {OpenAIDoc(c, u) : c \in SeqsUpTo(UpChoices, choiceLists), u \in usages}

\* Every reply explored by the adapters' specification.
AllReplies(adapter) ==
    FailureReplies
    \cup {HTTPReply(StatusOK, <<"json">>, <<d>>) : d \in OKDocs(adapter, MaxChoices, UsageDocs)}

\* The replies explored by the orchestrator's specification.
CoreReplies(adapter) ==
    {TransportFailure, HTTPReply(429, <<"rate"," ","limit">>, <<>>),
     HTTPReply(400, <<"x",":"," ">> \o FailedToRetrieveMedia, <<>>),
     HTTPReply(StatusOK, <<"<html>">>, <<>>)}
    \cup {HTTPReply(StatusOK, <<"json">>, <<d>>) :
            d \in {x \in OKDocs(adapter, 1, {CHOOSE u \in UsageDocs : u.CompletionTokens # <<>>}) :
                     adapter # "GeminiProvider" \/ Len(x.SafetyRatings) < 2}}

GetReply(transport, status, contentType, bytes) ==
    [transport |-> transport, status |-> status, contentType |-> contentType, bytes |-> bytes]

\* Replies to the GET of an image URL.
GetReplies ==
    {GetReply(TRUE, 0, <<>>, <<>>), GetReply(FALSE, 404, TextHtml, <<77>>),
     GetReply(FALSE, StatusOK, TextHtml, <<77>>), GetReply(FALSE, StatusOK, ImagePng, <<77>>),
     GetReply(FALSE, StatusOK, <<>>, <<0, 255>>), GetReply(FALSE, StatusOK, ImagePng, <<>>)}

(***************************************************************************)
(* State                                                                   *)
(***************************************************************************)
VARIABLES
    config,      \* the Config the service was built with: identifier -> key
    service,     \* TRUE once NewChatService has returned
    providers,   \* the registry: identifier -> adapter
    pc,          \* "idle", "downloading", "inflight" or "done"
    reqIn,       \* <<r>>: the request as the caller passed it
    req,         \* <<r>>: the request object as it is now
    invoked,     \* the adapter whose ChatCompletion was called, or ""
    adapterReq,  \* <<r>>: the request as ChatCompletion received it
    apiKeyUsed,  \* the key ChatCompletion received
    post,        \* <<p>>: the POST issued to the upstream
    gem,         \* gemini's loop: parts built so far and current position
    reply,       \* <<r>>: the upstream's reply to the POST
    resp,        \* <<r>>: the ChatResponse returned
    err,         \* <<e>>: the error returned
    netPosts,    \* number of POSTs issued by the call
    netGets,     \* number of image GETs issued by the call
    test,        \* <<[given, resp]>>: the last TestProvider call
    health,      \* <<h>>: the last HealthResponse returned
    lookup,      \* <<[name, p, err]>>: the last direct GetProvider call
    registered,  \* identifier -> adapter of the latest RegisterProvider call
    ctor,        \* per constructor: registrations its InitProviders has made
    ctxDone,     \* TRUE once the caller's context of the call is cancelled
    providersMu, \* the registry's RWMutex: writer, readers and waiting writers
    gor          \* per goroutine: its place in RegisterProvider or GetProvider

vars == <<config, service, providers, pc, reqIn, req, invoked, adapterReq, apiKeyUsed,
          post, gem, reply, resp, err, netPosts, netGets, test, health, lookup,
          registered, ctor, ctxDone, providersMu, gor>>

\* The number of goroutines that call the registry concurrently.
MaxGoroutines == 3

Goroutines == 1..MaxGoroutines

\* A goroutine outside the registry's functions.
GorIdle == [pc |-> "idle", name |-> "", provider |-> "", request |-> FALSE]

\* The mutex with no holder and no waiter (0 is no goroutine).
MuFree == [writer |-> 0, readers |-> {}, pending |-> {}]

\* The goroutines that may run NewChatService.
Ctors == {1, 2}

NoGem == [parts |-> <<>>, pos |-> 0]

EmptyRegistry == [n \in {} |-> ""]

\* The observation of a chat call, cleared.
NoCall ==
    /\ reqIn' = <<>> /\ req' = <<>> /\ invoked' = "" /\ adapterReq' = <<>>
    /\ apiKeyUsed' = "" /\ post' = <<>> /\ gem' = NoGem /\ reply' = <<>>
    /\ resp' = <<>> /\ err' = <<>> /\ netPosts' = 0 /\ netGets' = 0

InitWith(configs) ==
    /\ config \in configs
    /\ service = FALSE
    /\ providers = EmptyRegistry
    /\ pc = "idle"
    /\ reqIn = <<>> /\ req = <<>> /\ invoked = "" /\ adapterReq = <<>>
    /\ apiKeyUsed = "" /\ post = <<>> /\ gem = NoGem /\ reply = <<>>
    /\ resp = <<>> /\ err = <<>> /\ netPosts = 0 /\ netGets = 0
    /\ test = <<>>
    /\ health = <<>>
    /\ lookup = <<>>
    /\ registered = EmptyRegistry
    /\ ctor = [t \in Ctors |-> 0]
    /\ ctxDone = FALSE
    /\ providersMu = MuFree
    /\ gor = [g \in Goroutines |-> GorIdle]

Init == InitWith(Configs)

\* services.NewChatService
NewChatService ==
    /\ pc = "idle"
    /\ providers' = InitProviders(providers)
    /\ service' = TRUE
    /\ registered' = [n \in DOMAIN registered \cup Supported |->
                         IF n \in Supported
                         THEN CHOOSE a \in Adapters : GetName(a) = n
                         ELSE registered[n]]
    /\ lookup' = <<>>
    /\ UNCHANGED <<providersMu, gor, config, pc, reqIn, req, invoked, adapterReq, apiKeyUsed, post, gem,
                   reply, resp, err, netPosts, netGets, test, health, ctor, ctxDone>>

\* services.ChatService.TestProvider
DoTestProvider(id) ==
    /\ service
    /\ pc = "idle"
    /\ test' = <<[given |-> id, resp |-> TestProvider(config, id)]>>
    /\ pc' = "idle"
    /\ NoCall
    /\ health' = <<>>
    /\ lookup' = <<>>
    /\ UNCHANGED <<providersMu, gor, config, service, providers, registered, ctor, ctxDone>>

\* The effects of an adapter step on the call.
AdapterStep(c) ==
    /\ pc' = CASE c.next = "error" -> "done"
               [] c.next = "download" -> "downloading"
               [] c.next = "post" -> "inflight"
    /\ err' = c.err
    /\ post' = c.post
    /\ gem' = IF c.next = "download" THEN [parts |-> c.parts, pos |-> c.pos] ELSE NoGem
    /\ netPosts' = IF c.next = "post" THEN netPosts + 1 ELSE netPosts
    /\ netGets' = IF c.next = "download" THEN netGets + 1 ELSE netGets

\* services.ChatService.ProcessChatCompletion, called with request r.
ProcessChatCompletion(r) ==
    /\ service
    /\ pc = "idle"
    /\ LET s == ProcessStart(config, providers, r)
       IN  /\ reqIn' = <<r>>
           /\ req' = <<s.req>>
           /\ invoked' = s.invoked
           /\ adapterReq' = IF s.invoked = "" THEN <<>> ELSE <<s.req>>
           /\ apiKeyUsed' = s.apiKey
           /\ pc' = CASE s.next = "error" -> "done"
                      [] s.next = "download" -> "downloading"
                      [] s.next = "post" -> "inflight"
           /\ err' = s.err
           /\ post' = s.post
           /\ gem' = IF s.next = "download" THEN [parts |-> s.parts, pos |-> s.pos] ELSE NoGem
           /\ netPosts' = IF s.next = "post" THEN 1 ELSE 0
           /\ netGets' = IF s.next = "download" THEN 1 ELSE 0
    /\ reply' = <<>>
    /\ resp' = <<>>
    /\ test' = <<>>
    /\ health' = <<>>
    /\ lookup' = <<>>
    /\ ctxDone' = FALSE
    /\ UNCHANGED <<providersMu, gor, config, service, providers, registered, ctor>>

\* The GET of gemini's image download returns.
ImageDownloadReply(get) ==
    /\ pc = "downloading"
    /\ AdapterStep(GeminiResume(req[1], apiKeyUsed, gem.parts, gem.pos, get))
    /\ UNCHANGED <<providersMu, gor, config, service, providers, reqIn, req, invoked, adapterReq, apiKeyUsed,
                   reply, resp, test, health, lookup, registered, ctor, ctxDone>>

\* The POST to the upstream returns.
UpstreamReply(r, now) ==
    /\ pc = "inflight"
    /\ LET f == ChatCompletionFinish(invoked, post[1].model, r, now)
       IN  /\ resp' = f.resp
           /\ err' = f.err
    /\ reply' = <<r>>
    /\ pc' = "done"
    /\ UNCHANGED <<providersMu, gor, config, service, providers, reqIn, req, invoked, adapterReq, apiKeyUsed,
                   post, gem, netPosts, netGets, test, health, lookup, registered, ctor,
                   ctxDone>>

\* ProcessChatCompletion has returned to its caller, which drops the request.
Return ==
    /\ pc = "done"
    /\ pc' = "idle"
    /\ NoCall
    /\ ctxDone' = FALSE
    /\ UNCHANGED <<providersMu, gor, config, service, providers, test, health, lookup, registered, ctor>>

\* services.ChatService.GetHealthStatus
DoGetHealthStatus(now) ==
    /\ service
    /\ pc = "idle"
    /\ health' = <<GetHealthStatus(config, now)>>
    /\ test' = <<>>
    /\ lookup' = <<>>
    /\ pc' = "idle"
    /\ NoCall
    /\ UNCHANGED <<providersMu, gor, config, service, providers, registered, ctor, ctxDone>>

\* Provider.ChatCompletion of the adapter registered under name, called
\* directly with request r and the key of name.
DoChatCompletion(name, r) ==
    /\ pc = "idle"
    /\ GetProvider(providers, name).err = <<>>
    /\ LET adapter == GetProvider(providers, name).p[1]
           c == ChatCompletionStart(adapter, r, KeyOf[name])
       IN  /\ reqIn' = <<r>>
           /\ req' = <<r>>
           /\ invoked' = adapter
           /\ adapterReq' = <<r>>
           /\ apiKeyUsed' = KeyOf[name]
           /\ pc' = CASE c.next = "error" -> "done"
                      [] c.next = "download" -> "downloading"
                      [] c.next = "post" -> "inflight"
           /\ err' = c.err
           /\ post' = c.post
           /\ gem' = IF c.next = "download" THEN [parts |-> c.parts, pos |-> c.pos] ELSE NoGem
           /\ netPosts' = IF c.next = "post" THEN 1 ELSE 0
           /\ netGets' = IF c.next = "download" THEN 1 ELSE 0
    /\ reply' = <<>>
    /\ resp' = <<>>
    /\ test' = <<>>
    /\ health' = <<>>
    /\ lookup' = <<>>
    /\ ctxDone' = FALSE
    /\ UNCHANGED <<providersMu, gor, config, service, providers, registered, ctor>>

\* providers.RegisterProvider(name, provider), under the write lock.
DoRegisterProvider(name, provider) ==
    /\ providers' = RegisterProvider(providers, name, provider)
    /\ registered' = (name :> provider) @@ registered
    /\ lookup' = <<>>
    /\ UNCHANGED <<providersMu, gor, config, service, pc, reqIn, req, invoked, adapterReq, apiKeyUsed, post,
                   gem, reply, resp, err, netPosts, netGets, test, health, ctor, ctxDone>>

\* providers.GetProvider(name), under the read lock.
DoGetProvider(name) ==
    /\ pc = "idle"
    /\ lookup' = <<[name |-> name, p |-> GetProvider(providers, name).p,
                    err |-> GetProvider(providers, name).err]>>
    /\ UNCHANGED <<providersMu, gor, config, service, providers, pc, reqIn, req, invoked, adapterReq,
                   apiKeyUsed, post, gem, reply, resp, err, netPosts, netGets, test, health,
                   registered, ctor, ctxDone>>

\* The constructor handing out the service at its first registration.
InitProvidersStep_ServiceFirst(t) ==
    LET k == ctor[t] + 1
        last == k = Len(InitRegistrations)
    IN  /\ providers' = RegisterProvider(providers, InitRegistrations[k].name,
                                         InitRegistrations[k].provider)
        /\ registered' = (InitRegistrations[k].name :> InitRegistrations[k].provider)
                             @@ registered
        /\ ctor' = [ctor EXCEPT ![t] = IF last THEN 0 ELSE k]
        /\ service' = TRUE
        /\ lookup' = <<>>
        /\ UNCHANGED <<providersMu, gor, config, pc, reqIn, req, invoked, adapterReq, apiKeyUsed, post, gem,
                       reply, resp, err, netPosts, netGets, test, health, ctxDone>>

\* NewChatService run by constructor t, one RegisterProvider call of its
\* InitProviders at a time; it returns the service after the last one.
InitProvidersStep(t) ==
    LET k == ctor[t] + 1
        last == k = Len(InitRegistrations)
    IN  /\ providers' = RegisterProvider(providers, InitRegistrations[k].name,
                                         InitRegistrations[k].provider)
        /\ registered' = (InitRegistrations[k].name :> InitRegistrations[k].provider)
                             @@ registered
        /\ ctor' = [ctor EXCEPT ![t] = IF last THEN 0 ELSE k]
        /\ service' = (service \/ last)
        /\ lookup' = <<>>
        /\ UNCHANGED <<providersMu, gor, config, pc, reqIn, req, invoked, adapterReq, apiKeyUsed, post, gem,
                       reply, resp, err, netPosts, netGets, test, health, ctxDone>>

\* The context the controller received for the call is cancelled or
\* expires; the controller passes no context on.
Cancel ==
    /\ pc \in {"downloading", "inflight"}
    /\ ~ctxDone
    /\ ctxDone' = TRUE
    /\ UNCHANGED <<providersMu, gor, config, service, providers, pc, reqIn, req, invoked, adapterReq,
                   apiKeyUsed, post, gem, reply, resp, err, netPosts, netGets, test, health,
                   lookup, registered, ctor>>

Next ==
    \/ NewChatService
    \/ \E id \in {""} \cup Ids : DoTestProvider(id)
    \/ \E now \in Times : DoGetHealthStatus(now)
    \/ \E r \in Requests : ProcessChatCompletion(r)
    \/ \E get \in GetReplies : ImageDownloadReply(get)
    \/ \E r \in CoreReplies(invoked), now \in Times : UpstreamReply(r, now)
    \/ Return

Spec == Init /\ [][Next]_vars

\* The adapters' specification: every key configured; a plain request meets
\* every reply, a request with image bytes meets the orchestrator's replies
\* (no adapter's reply mapping reads the request's image).
AllKeyed == {c \in Configs : \A i \in Ids : c[i] # ""}

AdapterReplies ==
    IF adapterReq # <<>> /\ adapterReq[1].ImageData # <<>>
    THEN CoreReplies(invoked)
    ELSE AllReplies(invoked)

InitAdapters == InitWith(AllKeyed)

NextAdapters ==
    \/ NewChatService
    \/ \E r \in AdapterRequests : ProcessChatCompletion(r)
    \/ \E name \in Supported, r \in DirectRequests : DoChatCompletion(name, r)
    \/ \E r \in AdapterReplies, now \in Times : UpstreamReply(r, now)
    \/ Return

SpecAdapters == InitAdapters /\ [][NextAdapters]_vars

\* The registry's specification: constructors running concurrently with
\* registrations, lookups, requests and cancellations.
InitRegistry == InitWith(AllKeyed)

NextRegistry ==
    \/ \E t \in Ctors : InitProvidersStep(t)
    \/ \E name \in RegNames, provider \in RegAdapters : DoRegisterProvider(name, provider)
    \/ \E name \in Ids : DoGetProvider(name)
    \/ \E r \in RegistryRequests : ProcessChatCompletion(r)
    \/ \E r \in CoreReplies(invoked), now \in Times : UpstreamReply(r, now)
    \/ Cancel
    \/ Return

SpecRegistry == InitRegistry /\ [][NextRegistry]_vars

(***************************************************************************)
(* The registry's functions at the grain of providersMu.  A goroutine is   *)
(* at "Lock" or "RLock" while it waits in that call, at "write" or "read"  *)
(* while it holds the lock and accesses the map, and at "inflight" while   *)
(* the ChatCompletion that followed its lookup waits for the upstream.     *)
(* sync.RWMutex: Lock waits for the writer and the readers to leave, and   *)
(* RLock waits while a writer holds the lock or waits for it.              *)
(***************************************************************************)
Frame ==
    UNCHANGED <<config, service, pc, reqIn, req, invoked, adapterReq, apiKeyUsed, post, gem,
                reply, resp, err, netPosts, netGets, test, health, lookup, ctor, ctxDone>>

\* RegisterProvider(name, provider) is called: providersMu.Lock() begins.
RegisterProviderCall(g, name, provider) ==
    /\ gor[g].pc = "idle"
    /\ gor' = [gor EXCEPT ![g] = [pc |-> "Lock", name |-> name, provider |-> provider,
                                  request |-> FALSE]]
    /\ providersMu' = [providersMu EXCEPT !.pending = @ \cup {g}]
    /\ UNCHANGED <<providers, registered>>
    /\ Frame

\* providersMu.Lock() returns.
RegisterProviderLock(g) ==
    /\ gor[g].pc = "Lock"
    /\ providersMu.writer = 0 /\ providersMu.readers = {}
    /\ providersMu' = [providersMu EXCEPT !.writer = g, !.pending = @ \ {g}]
    /\ gor' = [gor EXCEPT ![g].pc = "write"]
    /\ UNCHANGED <<providers, registered>>
    /\ Frame

\* providers[name] = provider, and the deferred Unlock at the return.
RegisterProviderWrite(g) ==
    /\ gor[g].pc = "write"
    /\ providers' = RegisterProvider(providers, gor[g].name, gor[g].provider)
    /\ registered' = (gor[g].name :> gor[g].provider) @@ registered
    /\ providersMu' = [providersMu EXCEPT !.writer = 0]
    /\ gor' = [gor EXCEPT ![g] = GorIdle]
    /\ Frame

\* GetProvider(name) is called, by ProcessChatCompletion when request is
\* TRUE: providersMu.RLock() begins.
GetProviderCall(g, name, request) ==
    /\ gor[g].pc = "idle"
    /\ request => service
    /\ gor' = [gor EXCEPT ![g] = [pc |-> "RLock", name |-> name, provider |-> "",
                                  request |-> request]]
    /\ UNCHANGED <<providers, registered, providersMu>>
    /\ Frame

\* RLock returning while a writer holds the lock.
GetProviderRLock_IgnoreWriter(g) ==
    /\ gor[g].pc = "RLock"
    /\ providersMu' = [providersMu EXCEPT !.readers = @ \cup {g}]
    /\ gor' = [gor EXCEPT ![g].pc = "read"]
    /\ UNCHANGED <<providers, registered>>
    /\ Frame

\* providersMu.RLock() returns.
GetProviderRLock(g) ==
    /\ gor[g].pc = "RLock"
    /\ providersMu.writer = 0 /\ providersMu.pending = {}
    /\ providersMu' = [providersMu EXCEPT !.readers = @ \cup {g}]
    /\ gor' = [gor EXCEPT ![g].pc = "read"]
    /\ UNCHANGED <<providers, registered>>
    /\ Frame

\* The lookup returning to ProcessChatCompletion with the read lock held.
GetProviderRead_HoldAcrossCall(g) ==
    /\ gor[g].pc = "read"
    /\ LET r == GetProvider(providers, gor[g].name)
       IN  IF gor[g].request /\ r.err = <<>>
           THEN /\ gor' = [gor EXCEPT ![g] = [pc |-> "inflight", name |-> gor[g].name,
                                               provider |-> r.p[1], request |-> TRUE]]
                /\ UNCHANGED providersMu
           ELSE /\ gor' = [gor EXCEPT ![g] = GorIdle]
                /\ providersMu' = [providersMu EXCEPT !.readers = @ \ {g}]
    /\ UNCHANGED <<providers, registered>>
    /\ Frame

\* p, ok := providers[name], and the deferred RUnlock at either return.  A
\* lookup made by ProcessChatCompletion that found the adapter goes on to
\* its ChatCompletion; one that did not returns the error.
GetProviderRead(g) ==
    /\ gor[g].pc = "read"
    /\ providersMu' = [providersMu EXCEPT !.readers = @ \ {g}]
    /\ LET r == GetProvider(providers, gor[g].name)
       IN  gor' = [gor EXCEPT ![g] =
                      IF gor[g].request /\ r.err = <<>>
                      THEN [pc |-> "inflight", name |-> gor[g].name, provider |-> r.p[1],
                            request |-> TRUE]
                      ELSE GorIdle]
    /\ UNCHANGED <<providers, registered>>
    /\ Frame

\* The adapter's network call ends and ChatCompletion returns.
ChatCompletionReturn(g) ==
    /\ gor[g].pc = "inflight"
    /\ gor' = [gor EXCEPT ![g] = GorIdle]
    /\ UNCHANGED <<providers, registered, providersMu>>
    /\ Frame

\* The state once NewChatService has returned.
InitLocks ==
    /\ config \in AllKeyed
    /\ service = TRUE
    /\ providers = InitProviders(EmptyRegistry)
    /\ registered = [n \in {InitRegistrations[k].name : k \in DOMAIN InitRegistrations} |->
                         InitRegistrations[CHOOSE k \in DOMAIN InitRegistrations :
                                             InitRegistrations[k].name = n].provider]
    /\ pc = "idle"
    /\ reqIn = <<>> /\ req = <<>> /\ invoked = "" /\ adapterReq = <<>>
    /\ apiKeyUsed = "" /\ post = <<>> /\ gem = NoGem /\ reply = <<>>
    /\ resp = <<>> /\ err = <<>> /\ netPosts = 0 /\ netGets = 0
    /\ test = <<>> /\ health = <<>> /\ lookup = <<>>
    /\ ctor = [t \in Ctors |-> 0]
    /\ ctxDone = FALSE
    /\ providersMu = MuFree
    /\ gor = [g \in Goroutines |-> GorIdle]

NextLocks ==
    \/ \E g \in Goroutines, name \in RegNames, provider \in RegAdapters :
          RegisterProviderCall(g, name, provider)
    \/ \E g \in Goroutines : RegisterProviderLock(g)
    \/ \E g \in Goroutines : RegisterProviderWrite(g)
    \/ \E g \in Goroutines, name \in RegNames, request \in BOOLEAN :
          GetProviderCall(g, name, request)
    \/ \E g \in Goroutines : GetProviderRLock(g)
    \/ \E g \in Goroutines : GetProviderRead(g)
    \/ \E g \in Goroutines : ChatCompletionReturn(g)

SpecLocks == InitLocks /\ [][NextLocks]_vars

(***************************************************************************)
(* Properties                                                              *)
(***************************************************************************)

\* C1: a request whose prompt is empty and whose image flag is false fails
\* with InvalidRequest, returns no response and reaches no adapter and no
\* network call, whatever the provider, model and keys are.
C1_InvalidRequest ==
    (reqIn # <<>> /\ reqIn[1].Prompt = "" /\ ~reqIn[1].WithImage)
        => /\ pc = "done"
           /\ err = <<[kind |-> "InvalidRequest", status |-> 0, body |-> <<>>, of |-> ""]>>
           /\ resp = <<>>
           /\ invoked = "" /\ adapterReq = <<>> /\ post = <<>>
           /\ netPosts = 0 /\ netGets = 0

\* An invalid request that names a provider with a key and carries image
\* data has been rejected.
C1_Witness ==
    /\ pc = "done" /\ reqIn # <<>>
    /\ reqIn[1].Prompt = "" /\ ~reqIn[1].WithImage /\ reqIn[1].ImageData # <<>>
    /\ reqIn[1].Provider = "gemini" /\ config["gemini"] # ""
    /\ err # <<>> /\ err[1].kind = "InvalidRequest"

\* C2: the request an adapter receives has temperature 0.5 and max_tokens
\* 1000 wherever the caller omitted them, for each of the five adapters.
C2_DefaultsObserved ==
    adapterReq # <<>>
        => /\ reqIn[1].Temperature = <<>> => adapterReq[1].Temperature = <<"0.5">>
           /\ reqIn[1].MaxTokens = <<>> => adapterReq[1].MaxTokens = <<1000>>
           /\ adapterReq[1].Temperature # <<>> /\ adapterReq[1].MaxTokens # <<>>

\* An adapter was called with a request that omitted both fields.
C2_Witness ==
    /\ adapterReq # <<>> /\ invoked = "ChutesProvider"
    /\ reqIn[1].Temperature = <<>> /\ reqIn[1].MaxTokens = <<>>
    /\ adapterReq[1].Temperature = <<"0.5">> /\ adapterReq[1].MaxTokens = <<1000>>

\* C3: a valid request whose resolved provider has an empty configured key
\* fails with MissingAPIKey, and no network call has been made.
C3_MissingKeyNoNetwork ==
    (reqIn # <<>> /\ ~(reqIn[1].Prompt = "" /\ ~reqIn[1].WithImage))
        => LET name == IF reqIn[1].Provider = "" THEN "groq" ELSE reqIn[1].Provider
           IN  config[name] = ""
                 => /\ pc = "done"
                    /\ err # <<>> /\ err[1].kind = "MissingAPIKey" /\ err[1].of = name
                    /\ resp = <<>>
                    /\ netPosts = 0 /\ netGets = 0

\* A valid request with an image URL for gemini, whose key is missing while
\* another provider has one, has failed.
C3_Witness ==
    /\ pc = "done" /\ reqIn # <<>>
    /\ reqIn[1].Provider = "gemini" /\ config["gemini"] = "" /\ config["groq"] # ""
    /\ reqIn[1].WithImage /\ reqIn[1].ImageData = HttpURL
    /\ err # <<>> /\ err[1].kind = "MissingAPIKey"
    /\ netPosts = 0 /\ netGets = 0

\* C4: TestProvider answers invalid_provider for every non-empty identifier
\* outside the five supported ones, with or without a key configured for it.
C4_InvalidProvider ==
    (test # <<>> /\ test[1].given # ""
       /\ test[1].given \notin {"groq", "openrouter", "gemini", "atlas", "chutes"})
        => test[1].resp.Status = "invalid_provider"

\* TestProvider was asked about an unsupported identifier that has a key.
C4_Witness ==
    /\ test # <<>> /\ test[1].given = "made_up" /\ config["made_up"] # ""
    /\ test[1].resp.Status = "invalid_provider"

\* C5: TestProvider answers invalid_request for the empty identifier, else
\* invalid_provider for an unsupported one, else no_api_key for a supported
\* one whose key is empty, else healthy; the provider field is the
\* identifier given.
C5_TestProviderPriority ==
    test # <<>>
        => LET id == test[1].given
           IN  /\ test[1].resp.Provider = id
               /\ test[1].resp.Status =
                    IF id = "" THEN "invalid_request"
                    ELSE IF id \notin {"groq", "openrouter", "gemini", "atlas", "chutes"}
                    THEN "invalid_provider"
                    ELSE IF config[id] = "" THEN "no_api_key"
                    ELSE "healthy"

\* C6 as stated: for every adapter a non-2xx answer to the POST makes
\* ChatCompletion fail with a ProviderError carrying that status and the
\* body, with no response and exactly one POST.
C6_ProviderErrorAlways ==
    (pc = "done" /\ reply # <<>> /\ ~reply[1].transport /\ reply[1].status \notin 200..299)
        => /\ err = <<[kind |-> "ProviderError", status |-> reply[1].status,
                       body |-> reply[1].body.text, of |-> ""]>>
           /\ resp = <<>>
           /\ netPosts = 1

\* C6 amended: for every adapter a non-2xx answer to the POST makes
\* ChatCompletion fail with no response after exactly one POST; the error is
\* a ProviderError carrying the status and the body, except that groq
\* answers a 400 whose body mentions "failed to retrieve media" with an
\* image access error carrying the body only.
C6_NonOKFailsOnce ==
    (pc = "done" /\ reply # <<>> /\ ~reply[1].transport /\ reply[1].status \notin 200..299)
        => /\ resp = <<>>
           /\ netPosts = 1
           /\ err # <<>> /\ err[1].body = reply[1].body.text
           /\ IF invoked = "GroqProvider" /\ reply[1].status = 400
                 /\ Contains(reply[1].body.text, FailedToRetrieveMedia)
              THEN err[1].kind = "ImageAccessError" /\ err[1].status = 0
              ELSE err[1].kind = "ProviderError" /\ err[1].status = reply[1].status

\* An upstream answered 429 and the call failed with that status.
C6_Witness ==
    /\ pc = "done" /\ reply # <<>> /\ ~reply[1].transport /\ reply[1].status = 429
    /\ invoked = "GeminiProvider"
    /\ err # <<>> /\ err[1].kind = "ProviderError" /\ err[1].status = 429
    /\ resp = <<>> /\ netPosts = 1

\* C7 as stated: a returned ChatResponse has one choice per upstream
\* choice, in order, each with the upstream's index and content, and the
\* upstream's usage counters or zero where omitted.  A gemini candidate's
\* index is its position and its content is the texts of its parts.
C7_ChoicesCarryUpstream ==
    (pc = "done" /\ resp # <<>>)
        => LET doc == reply[1].body.doc[1]
               up == IF invoked = "GeminiProvider" THEN doc.Candidates ELSE doc.Choices
               text(c) == IF invoked = "AtlasProvider" THEN c.Message.Content
                          ELSE c.Message.Content[1].Text
           IN  /\ Len(resp[1].Choices) = Len(up)
               /\ \A i \in 1..Len(up) :
                    IF invoked = "GeminiProvider"
                    THEN /\ resp[1].Choices[i].Index = i - 1
                         /\ \/ up[i].Parts = <<>> /\ text(resp[1].Choices[i]) = ""
                            \/ up[i].Parts = <<text(resp[1].Choices[i])>>
                    ELSE /\ resp[1].Choices[i].Index = up[i].Index
                         /\ text(resp[1].Choices[i]) = up[i].Content

\* C7 amended: a returned ChatResponse has one choice per upstream choice,
\* in order, and the upstream's usage counters, zero where omitted.  For
\* groq, openrouter, atlas and chutes each choice has the upstream's index
\* and content.  For gemini each choice has its position as index and the
\* text of the candidate's first part, empty when there is none, except
\* that a candidate without parts whose finish reason is MAX_TOKENS gets
\* the fixed placeholder text.
C7_ChoicesMapped ==
    (pc = "done" /\ resp # <<>>)
        => LET doc == reply[1].body.doc[1]
               up == IF invoked = "GeminiProvider" THEN doc.Candidates ELSE doc.Choices
               text(c) == IF invoked = "AtlasProvider" THEN c.Message.Content
                          ELSE c.Message.Content[1].Text
               n(f) == IF f = <<>> THEN 0 ELSE f[1]
               u == resp[1].Usage
           IN  /\ Len(resp[1].Choices) = Len(up)
               /\ \A i \in 1..Len(up) :
                    IF invoked = "GeminiProvider"
                    THEN /\ resp[1].Choices[i].Index = i - 1
                         /\ text(resp[1].Choices[i]) =
                              IF up[i].Parts # <<>> THEN up[i].Parts[1]
                              ELSE IF up[i].FinishReason = "MAX_TOKENS" THEN MaxTokensPlaceholder
                              ELSE ""
                    ELSE /\ resp[1].Choices[i].Index = up[i].Index
                         /\ text(resp[1].Choices[i]) = up[i].Content
               /\ IF invoked = "GeminiProvider"
                  THEN /\ u.PromptTokens = n(doc.Usage.PromptTokenCount)
                       /\ u.CompletionTokens = n(doc.Usage.CandidatesTokenCount)
                       /\ u.TotalTokens = n(doc.Usage.TotalTokenCount)
                  ELSE /\ u.PromptTokens = n(doc.Usage.PromptTokens)
                       /\ u.CompletionTokens = n(doc.Usage.CompletionTokens)
                       /\ u.TotalTokens = n(doc.Usage.TotalTokens)

\* groq returned two choices whose upstream indexes are both 1, with a
\* usage that omits the completion counter.
C7_Witness ==
    /\ pc = "done" /\ resp # <<>> /\ invoked = "GroqProvider"
    /\ Len(resp[1].Choices) = 2
    /\ resp[1].Choices[1].Index = 1 /\ resp[1].Choices[2].Index = 1
    /\ resp[1].Choices[2].Message.Content[1].Text = "there"
    /\ resp[1].Usage = [PromptTokens |-> 5, CompletionTokens |-> 0, TotalTokens |-> 9]

\* C8 as stated: for every byte sequence, the empty one included, gemini
\* resolves the PNG data URI of the bytes to an inline image of mime type
\* image/png whose base64 data decodes to the bytes.
C8_RoundTripAll ==
    \A b \in ByteSeqs :
        (adapterReq # <<>> /\ invoked = "GeminiProvider" /\ adapterReq[1].WithImage
           /\ adapterReq[1].ImageData = PngDataURI(b))
            => /\ post # <<>>
               /\ \E i \in 1..Len(post[1].payload.contents) :
                    LET part == post[1].payload.contents[i]
                    IN  /\ part.kind = "inline_data"
                        /\ part.mime_type = <<"i","m","a","g","e","/","p","n","g">>
                        /\ DecodeString(part.data) = b

\* C8 amended: for every non-empty byte sequence, gemini resolves the PNG
\* data URI of the bytes to an inline image of mime type image/png whose
\* base64 data decodes to the bytes.
C8_RoundTripNonEmpty ==
    \A b \in ByteSeqs :
        (b # <<>> /\ adapterReq # <<>> /\ invoked = "GeminiProvider" /\ adapterReq[1].WithImage
           /\ adapterReq[1].ImageData = PngDataURI(b))
            => /\ post # <<>>
               /\ \E i \in 1..Len(post[1].payload.contents) :
                    LET part == post[1].payload.contents[i]
                    IN  /\ part.kind = "inline_data"
                        /\ part.mime_type = <<"i","m","a","g","e","/","p","n","g">>
                        /\ DecodeString(part.data) = b

\* gemini posted the inline image of the two bytes 255, 77, whose base64
\* form is padded.
C8_Witness ==
    /\ pc = "inflight" /\ invoked = "GeminiProvider"
    /\ adapterReq[1].ImageData = PngDataURI(<<255, 77>>)
    /\ adapterReq[1].Prompt = ""
    /\ Len(post[1].payload.contents) = 1
    /\ post[1].payload.contents[1].data = <<"/", "0", "0", "=">>
    /\ DecodeString(post[1].payload.contents[1].data) = <<255, 77>>

\* C9 as stated: the adapter receives exactly one user message whose parts
\* are a text part with the prompt iff the prompt is non-empty, then an
\* image part with the image reference iff the image flag is set.
C9_MessageByFlag ==
    adapterReq # <<>>
        => adapterReq[1].Messages =
             << [Role |-> "user",
                 Content |->
                   (IF reqIn[1].Prompt # ""
                    THEN <<[Type |-> "text", Text |-> reqIn[1].Prompt, ImageURL |-> <<>>]>>
                    ELSE <<>>)
                   \o (IF reqIn[1].WithImage
                       THEN <<[Type |-> "image_url", Text |-> "",
                               ImageURL |-> <<[URL |-> reqIn[1].ImageData]>>]>>
                       ELSE <<>>)] >>

\* C9 amended: the adapter receives exactly one user message whose parts
\* are a text part with the prompt iff the prompt is non-empty, then an
\* image part with the image reference iff the image flag is set and the
\* image data is non-empty.
C9_MessageBuilt ==
    adapterReq # <<>>
        => adapterReq[1].Messages =
             << [Role |-> "user",
                 Content |->
                   (IF reqIn[1].Prompt # ""
                    THEN <<[Type |-> "text", Text |-> reqIn[1].Prompt, ImageURL |-> <<>>]>>
                    ELSE <<>>)
                   \o (IF reqIn[1].WithImage /\ reqIn[1].ImageData # <<>>
                       THEN <<[Type |-> "image_url", Text |-> "",
                               ImageURL |-> <<[URL |-> reqIn[1].ImageData]>>]>>
                       ELSE <<>>)] >>

\* An adapter received a text part followed by an image part.
C9_Witness ==
    /\ adapterReq # <<>> /\ reqIn[1].Prompt = "hi" /\ reqIn[1].WithImage
    /\ reqIn[1].ImageData = HttpURL
    /\ Len(adapterReq[1].Messages) = 1
    /\ Len(adapterReq[1].Messages[1].Content) = 2
    /\ adapterReq[1].Messages[1].Content[1].Type = "text"
    /\ adapterReq[1].Messages[1].Content[2].Type = "image_url"

\* C10: a non-empty pre-built message list of the request reaches the
\* adapter verbatim.
C10_PrebuiltVerbatim ==
    (adapterReq # <<>> /\ reqIn[1].Messages # <<>>)
        => adapterReq[1].Messages = reqIn[1].Messages

\* C11: a valid request whose resolved provider identifier has a non-empty
\* configured key but no adapter in the registry fails with UnknownProvider,
\* returns no response and makes no network call; a direct GetProvider
\* fails with UnknownProvider exactly when the identifier is absent from
\* the registry, and returns the registered adapter otherwise.
C11_UnknownProvider ==
    /\ (/\ reqIn # <<>>
        /\ ~(reqIn[1].Prompt = "" /\ ~reqIn[1].WithImage)
        /\ LET name == IF reqIn[1].Provider = "" THEN "groq" ELSE reqIn[1].Provider
           IN  config[name] # "" /\ name \notin DOMAIN providers)
       => /\ pc = "done"
          /\ err = <<[kind |-> "UnknownProvider", status |-> 0, body |-> <<>>,
                      of |-> IF reqIn[1].Provider = "" THEN "groq" ELSE reqIn[1].Provider]>>
          /\ resp = <<>>
          /\ invoked = "" /\ adapterReq = <<>> /\ post = <<>>
          /\ netPosts = 0 /\ netGets = 0
    /\ lookup # <<>>
       => IF lookup[1].name \in DOMAIN providers
          THEN lookup[1].err = <<>> /\ lookup[1].p = <<providers[lookup[1].name]>>
          ELSE /\ lookup[1].p = <<>>
               /\ lookup[1].err = <<[kind |-> "UnknownProvider", status |-> 0, body |-> <<>>,
                                     of |-> lookup[1].name]>>

\* A request for an identifier that has a key and no adapter has failed
\* while the five supported adapters were registered.
C11_Witness ==
    /\ pc = "done" /\ reqIn # <<>> /\ reqIn[1].Prompt = "hi"
    /\ reqIn[1].Provider = "made_up" /\ config["made_up"] = "sk-made-up"
    /\ "made_up" \notin DOMAIN providers /\ "groq" \in DOMAIN providers
    /\ err # <<>> /\ err[1].kind = "UnknownProvider" /\ err[1].of = "made_up"

\* C12: GetHealthStatus reports no_api_keys if and only if every supported
\* provider has an empty key and healthy otherwise, and the status of the
\* health response is never healthy when no supported key is configured.
C12_HealthStatus ==
    health # <<>>
        => LET noKey == \A i \in 1..Len(SupportedProviders) : config[SupportedProviders[i]] = ""
           IN  /\ health[1].Services.chat = "no_api_keys" <=> noKey
               /\ ~noKey => health[1].Services.chat = "healthy"
               /\ noKey => health[1].Status # "healthy"

\* C13: after any sequence of RegisterProvider calls, GetProvider(id)
\* returns the adapter of the latest RegisterProvider(id, .) call, and fails
\* for an identifier never registered; a registration under one identifier
\* leaves the lookup of every other identifier as it was (registered, the
\* record of the latest call per identifier, changes at that identifier
\* only).
C13_LatestRegistration ==
    \A id \in Ids :
        IF id \in DOMAIN registered
        THEN GetProvider(providers, id) = [p |-> <<registered[id]>>, err |-> <<>>]
        ELSE /\ GetProvider(providers, id).p = <<>>
             /\ GetProvider(providers, id).err # <<>>

\* The adapter of groq was overwritten after InitProviders, a lookup of
\* groq returned the new one, and atlas kept its own.
C13_Witness ==
    /\ registered = [gemini |-> "GeminiProvider", openrouter |-> "OpenRouterProvider",
                     groq |-> "AtlasProvider", atlas |-> "AtlasProvider",
                     chutes |-> "ChutesProvider"]
    /\ lookup = <<[name |-> "groq", p |-> <<"AtlasProvider">>, err |-> <<>>]>>
    /\ providers["atlas"] = "AtlasProvider" /\ providers["gemini"] = "GeminiProvider"
    /\ "made_up" \notin DOMAIN providers

\* C14: a request's lookup never sees a partially populated registry: in
\* every interleaving of the constructors' registrations with requests,
\* whenever ProcessChatCompletion has reached its lookup, all five
\* supported identifiers are registered.
C14_NoPartialRegistry ==
    (reqIn # <<>> /\ (invoked # "" \/ (err # <<>> /\ err[1].kind = "UnknownProvider")))
        => \A i \in 1..Len(SupportedProviders) : SupportedProviders[i] \in DOMAIN providers

\* A request is in flight at gemini's adapter while the other constructor
\* is in the middle of its InitProviders.
C14_Witness ==
    /\ pc = "inflight" /\ invoked = "GeminiProvider" /\ netPosts = 1
    /\ \E t \in Ctors : ctor[t] = 2
    /\ DOMAIN providers = {"groq", "openrouter", "gemini", "atlas", "chutes"}

\* C15 as stated: every adapter invocation that went through to the
\* upstream's reply performed exactly one network call, requests with
\* http(s) image references included.
C15_ExactlyOneNetworkCall ==
    (adapterReq # <<>> /\ reply # <<>>) => netPosts + netGets = 1

\* C15: an adapter invocation issues at most one POST to the upstream, and
\* exactly one once it waits for or has the upstream's reply; gemini issues
\* before it one GET for the image part whose reference is an http(s) URL,
\* and no other adapter and no other request issues a GET.
C15_OnePostAfterDownloads ==
    /\ netPosts \in {0, 1}
    /\ (pc = "inflight" \/ reply # <<>>) => netPosts = 1
    /\ pc = "downloading" => netPosts = 0
    /\ adapterReq = <<>> => netPosts = 0 /\ netGets = 0
    /\ adapterReq # <<>>
       => LET content == adapterReq[1].Messages[1].Content
              httpImage ==
                  \E k \in 1..Len(content) :
                      /\ content[k].Type = "image_url"
                      /\ LET u == content[k].ImageURL[1].URL
                         IN  \/ Len(u) >= 7 /\ SubSeq(u, 1, 7) = <<"h","t","t","p",":","/","/">>
                             \/ Len(u) >= 8 /\ SubSeq(u, 1, 8) = <<"h","t","t","p","s",":","/","/">>
          IN  netGets = IF invoked = "GeminiProvider" /\ httpImage THEN 1 ELSE 0

\* Gemini answered a request whose image is an https URL after one GET and
\* one POST.
C15_Witness ==
    /\ pc = "done" /\ invoked = "GeminiProvider" /\ resp # <<>>
    /\ adapterReq[1].ImageData = HttpURL /\ adapterReq[1].WithImage
    /\ netGets = 1 /\ netPosts = 1

\* C16: once the caller's context is cancelled while the adapter's network
\* call is in flight, the call is cancelled and ProcessChatCompletion has
\* returned without the upstream's reply: no state has the context done and
\* the call still waiting on the network or ended by a reply.
C16_CancelStopsCall ==
    ctxDone => (pc = "done" /\ reply = <<>>)

\* C17: every ProcessChatCompletion call ends with exactly one of a
\* ChatResponse and an error, whichever stage ends it, and returns neither
\* before it ends.
C17_ResponseXorError ==
    /\ Len(resp) <= 1 /\ Len(err) <= 1
    /\ pc = "done" => ((resp # <<>>) # (err # <<>>))
    /\ pc # "done" => (resp = <<>> /\ err = <<>>)

\* A call through gemini's image download and POST ended with a response
\* and no error.
C17_Witness ==
    /\ pc = "done" /\ reqIn # <<>> /\ reqIn[1].Provider = "gemini"
    /\ netGets = 1 /\ netPosts = 1 /\ reply # <<>>
    /\ resp # <<>> /\ Len(resp[1].Choices) = 1 /\ err = <<>>

\* C18: for every adapter, a request whose message list has no content
\* part (an empty prompt with the image flag set and no image data) fails
\* in ChatCompletion with a request-building error and without a network
\* call.
C18_ZeroPartsRejected ==
    (adapterReq # <<>> /\ \A m \in 1..Len(adapterReq[1].Messages) :
                             adapterReq[1].Messages[m].Content = <<>>)
        => /\ pc = "done"
           /\ err # <<>>
           /\ err[1].kind \in {"NoValidContent", "EmptyImageURL", "MalformedDataURI",
                                "UnsupportedImageReference"}
           /\ resp = <<>> /\ post = <<>>
           /\ netPosts = 0 /\ netGets = 0

C20_FinishReasonLowered ==
    (pc = "done" /\ resp # <<>>)
        => LET doc == reply[1].body.doc[1]
               upstream == IF invoked = "GeminiProvider" THEN doc.Candidates ELSE doc.Choices
           IN  /\ Len(resp[1].Choices) = Len(upstream)
               /\ \A i \in 1..Len(upstream) :
                      /\ resp[1].Choices[i].FinishReason = ToLower(upstream[i].FinishReason)
                      /\ resp[1].Choices[i].FinishReason \in {"stop", "length", "max_tokens"}

\* C21: for every adapter, a choice for which the upstream reports
\* truncation (finish reason length or max_tokens, in any case) and sends
\* no content (no part, or empty text only) is returned with the fixed
\* placeholder as its text, never with the empty string.
C21_PlaceholderOnTruncation ==
    (pc = "done" /\ resp # <<>>)
        => LET doc == reply[1].body.doc[1]
               upstream == IF invoked = "GeminiProvider" THEN doc.Candidates ELSE doc.Choices
               truncated(u) == ToLower(u.FinishReason) \in {"length", "max_tokens"}
               empty(u) == IF invoked = "GeminiProvider"
                           THEN \A k \in 1..Len(u.Parts) : u.Parts[k] = ""
                           ELSE u.Content = ""
               text(c) == IF invoked = "AtlasProvider" THEN c.Message.Content
                          ELSE c.Message.Content[1].Text
           IN  \A i \in 1..Len(upstream) :
                   (truncated(upstream[i]) /\ empty(upstream[i]))
                       => /\ text(resp[1].Choices[i]) = MaxTokensPlaceholder
                          /\ text(resp[1].Choices[i]) # ""

\* C22: the adapter invoked is the one registered under groq when the
\* request's provider field is empty and under the named identifier
\* otherwise, and the key it receives and sends is the key configured for
\* that identifier, which is the adapter's own name.
C22_ProviderResolution ==
    (reqIn # <<>> /\ invoked # "")
        => LET name == IF reqIn[1].Provider = "" THEN "groq" ELSE reqIn[1].Provider
           IN  /\ name \in DOMAIN providers /\ invoked = providers[name]
               /\ GetName(invoked) = name
               /\ apiKeyUsed = config[name] /\ apiKeyUsed # ""
               /\ post # <<>> => (post[1].apiKey = config[name] /\ post[1].adapter = invoked)

\* With every key configured, a request naming no provider is in flight
\* at groq's adapter with groq's key.
C22_Witness ==
    /\ pc = "inflight" /\ reqIn[1].Provider = "" /\ invoked = "GroqProvider"
    /\ config["gemini"] = "sk-gemini" /\ config["groq"] = "sk-groq"
    /\ apiKeyUsed = "sk-groq" /\ post[1].apiKey = "sk-groq"

\* C23: in every ChatResponse an adapter returns, the message of every
\* choice has role assistant, whatever role the upstream's reply carries.
C23_RoleAssistant ==
    (pc = "done" /\ resp # <<>>)
        => \A i \in 1..Len(resp[1].Choices) : resp[1].Choices[i].Message.Role = "assistant"

\* C24: ProcessChatCompletion validates, applies the defaults, builds the
\* messages, resolves the provider and its key, looks the adapter up and
\* invokes it, in this order, and stops at the first stage that fails: the
\* error is InvalidRequest before anything else (and the request is then
\* untouched), MissingAPIKey before UnknownProvider, UnknownProvider before
\* any adapter error, and no adapter or network call follows a failure.
C24_StageOrder ==
    reqIn # <<>>
        => LET r == reqIn[1]
               name == IF r.Provider = "" THEN "groq" ELSE r.Provider
               stopped(kind) ==
                   /\ pc = "done" /\ err # <<>> /\ err[1].kind = kind /\ resp = <<>>
                   /\ invoked = "" /\ adapterReq = <<>> /\ post = <<>>
                   /\ netPosts = 0 /\ netGets = 0
           IN  IF r.Prompt = "" /\ ~r.WithImage
               THEN stopped("InvalidRequest") /\ req[1] = r
               ELSE /\ req[1].Temperature # <<>> /\ req[1].MaxTokens # <<>>
                    /\ Len(req[1].Messages) = 1 /\ req[1].Messages[1].Role = "user"
                    /\ IF config[name] = "" THEN stopped("MissingAPIKey") /\ err[1].of = name
                       ELSE IF name \notin DOMAIN providers
                       THEN stopped("UnknownProvider") /\ err[1].of = name
                       ELSE /\ invoked = providers[name] /\ adapterReq = <<req[1]>>
                            /\ err # <<>> => err[1].kind \notin {"InvalidRequest", "MissingAPIKey",
                                                                  "UnknownProvider"}

\* A request for an identifier with neither a key nor an adapter failed
\* with MissingAPIKey after the defaults were applied.
C24_Witness ==
    /\ pc = "done" /\ reqIn[1].Provider = "made_up" /\ reqIn[1].Temperature = <<>>
    /\ config["made_up"] = "" /\ "made_up" \notin DOMAIN providers
    /\ err[1].kind = "MissingAPIKey"
    /\ req[1].Temperature = <<"0.5">> /\ req[1].MaxTokens # <<>>

\* C26: an image reference that is neither a data: URI nor an http:// or
\* https:// URL makes ChatCompletion fail with UnsupportedImageReference
\* before any POST, for every adapter: none forwards or drops it.
C26_UnsupportedSchemeRejected ==
    (adapterReq # <<>>
       /\ \E m \in 1..Len(adapterReq[1].Messages) :
            \E k \in 1..Len(adapterReq[1].Messages[m].Content) :
                LET part == adapterReq[1].Messages[m].Content[k]
                IN  /\ part.Type = "image_url"
                    /\ ~HasPrefix(part.ImageURL[1].URL, DataColon)
                    /\ ~HasPrefix(part.ImageURL[1].URL, HttpPrefix)
                    /\ ~HasPrefix(part.ImageURL[1].URL, HttpsPrefix))
        => /\ pc = "done"
           /\ err # <<>> /\ err[1].kind = "UnsupportedImageReference"
           /\ resp = <<>> /\ post = <<>> /\ netPosts = 0

\* C27: the gemini adapter never returns a ChatResponse without a choice:
\* on a parsed 200 reply it fails if any safety rating is marked blocked,
\* candidates or not, fails if there is no candidate, and otherwise returns
\* one choice per candidate.
C27_GeminiNeverEmpty ==
    /\ (invoked = "GeminiProvider" /\ resp # <<>>) => Len(resp[1].Choices) >= 1
    /\ (invoked = "GeminiProvider" /\ reply # <<>> /\ ~reply[1].transport
          /\ reply[1].status = 200 /\ reply[1].body.doc # <<>>)
       => LET doc == reply[1].body.doc[1]
          IN  IF \E i \in 1..Len(doc.SafetyRatings) : doc.SafetyRatings[i].Blocked
              THEN resp = <<>> /\ err # <<>> /\ err[1].kind = "PromptBlocked"
              ELSE IF doc.Candidates = <<>>
              THEN resp = <<>> /\ err # <<>> /\ err[1].kind = "NoCandidates"
              ELSE /\ err = <<>> /\ resp # <<>>
                   /\ Len(resp[1].Choices) = Len(doc.Candidates)

\* A reply with two candidates and a blocked rating ended in an error.
C27_Witness ==
    /\ pc = "done" /\ invoked = "GeminiProvider" /\ reply # <<>>
    /\ reply[1].body.doc # <<>>
    /\ Len(reply[1].body.doc[1].Candidates) = 2
    /\ \E i \in 1..Len(reply[1].body.doc[1].SafetyRatings) :
           reply[1].body.doc[1].SafetyRatings[i].Blocked
    /\ resp = <<>> /\ err[1].kind = "PromptBlocked"

\* C28: ProcessChatCompletion changes at most the temperature, max_tokens
\* and messages of the request object: prompt, model, provider, image flag,
\* image data and stream flag are as the caller passed them on every path,
\* and a call failing with InvalidRequest leaves the whole request as it
\* was.
C28_RequestFrame ==
    reqIn # <<>>
        => /\ req # <<>>
           /\ req[1].Prompt = reqIn[1].Prompt
           /\ req[1].Model = reqIn[1].Model
           /\ req[1].Provider = reqIn[1].Provider
           /\ req[1].WithImage = reqIn[1].WithImage
           /\ req[1].ImageData = reqIn[1].ImageData
           /\ req[1].Stream = reqIn[1].Stream
           /\ (err # <<>> /\ err[1].kind = "InvalidRequest") => req[1] = reqIn[1]

\* A call naming no provider and no parameters has returned a response;
\* the request now carries the defaults and the built message, and still
\* no provider.
C28_Witness ==
    /\ pc = "done" /\ resp # <<>>
    /\ reqIn[1].Provider = "" /\ reqIn[1].Temperature = <<>> /\ reqIn[1].Messages = <<>>
    /\ req[1].Provider = "" /\ req[1].Temperature = <<"0.5">> /\ req[1].MaxTokens = <<1000>>
    /\ Len(req[1].Messages) = 1

\* C29: once NewChatService has returned, and after any further
\* NewChatService call, the identifiers in the registry are exactly the
\* configuration's five supported providers and each is mapped to the
\* adapter whose GetName is that identifier; so no request for a supported
\* identifier with a key fails with UnknownProvider.
C29_RegistryIsSupportedSet ==
    /\ service
       => /\ DOMAIN providers = {SupportedProviders[i] : i \in 1..Len(SupportedProviders)}
          /\ \A n \in DOMAIN providers :
                 providers[n] = CASE n = "groq" -> "GroqProvider"
                                  [] n = "openrouter" -> "OpenRouterProvider"
                                  [] n = "gemini" -> "GeminiProvider"
                                  [] n = "atlas" -> "AtlasProvider"
                                  [] n = "chutes" -> "ChutesProvider"
    /\ (reqIn # <<>> /\ err # <<>> /\ err[1].kind = "UnknownProvider")
       => /\ reqIn[1].Provider \notin {"", "groq", "openrouter", "gemini", "atlas", "chutes"}
          /\ config[reqIn[1].Provider] # ""

\* With the service built, a request for chutes, the last adapter
\* registered, is in flight with its key.
C29_Witness ==
    /\ service /\ pc = "inflight" /\ reqIn[1].Provider = "chutes"
    /\ invoked = "ChutesProvider" /\ providers["chutes"] = "ChutesProvider"
    /\ apiKeyUsed = "sk-chutes"

\* C25: no registry lock is held while an adapter's network call is in
\* flight.  A goroutine whose ChatCompletion waits for the upstream holds
\* neither the read lock nor the write lock, and whenever no goroutine is
\* inside GetProvider's or RegisterProvider's critical section, a waiting
\* RegisterProvider can take the write lock, however many requests are
\* blocked on their upstream calls.
C25_NoLockAcrossCall ==
    /\ \A g \in Goroutines :
          gor[g].pc = "inflight" => g \notin providersMu.readers /\ providersMu.writer # g
    /\ (\A h \in Goroutines : gor[h].pc \notin {"read", "write"})
          => \A g \in Goroutines : gor[g].pc = "Lock" => ENABLED RegisterProviderLock(g)

\* Two requests wait for their upstreams while a registration holds the
\* write lock.
C25_Witness ==
    \E g \in Goroutines :
        /\ gor[g].pc = "write" /\ providersMu.writer = g
        /\ Cardinality({h \in Goroutines : gor[h].pc = "inflight"}) >= 2

\* C30: accesses to the provider map are race-free.  The write lock is held
\* exactly by the goroutine assigning the map and the read lock exactly by
\* the goroutines reading it; a writer excludes every reader and every
\* other writer, readers share; a goroutine that has returned (found or not
\* found) or still waits holds nothing; and while some goroutine is inside
\* either function, one of them can take its next step.
C30_RaceFree ==
    /\ \A g \in Goroutines :
          /\ (gor[g].pc = "write") <=> (providersMu.writer = g)
          /\ (gor[g].pc = "read") <=> (g \in providersMu.readers)
          /\ (gor[g].pc = "Lock") <=> (g \in providersMu.pending)
    /\ providersMu.writer \in Goroutines \cup {0}
    /\ providersMu.writer # 0 => providersMu.readers = {}
    /\ \A g, h \in Goroutines :
          g # h /\ gor[g].pc = "write" => gor[h].pc \notin {"read", "write"}
    /\ (\E g \in Goroutines : gor[g].pc \in {"Lock", "RLock", "read", "write"})
          => \E g \in Goroutines :
                \/ ENABLED RegisterProviderLock(g)
                \/ ENABLED RegisterProviderWrite(g)
                \/ ENABLED GetProviderRLock(g)
                \/ ENABLED GetProviderRead(g)

\* Two lookups read the map at the same time, one of them for an identifier
\* the map does not hold, while a registration waits for the write lock.
C30_Witness ==
    \E g, h, w \in Goroutines :
        /\ g # h
        /\ gor[g].pc = "read" /\ gor[h].pc = "read"
        /\ {g, h} \subseteq providersMu.readers
        /\ gor[g].name \notin DOMAIN providers
        /\ gor[w].pc = "Lock"

====
